---------------------------- MODULE Spec2Model ----------------------------
(***************************************************************************)
(* The blockchain gateway of main.go: main dials the Ethereum node,        *)
(* registers the handlers of /latest-block and /balance on the default     *)
(* mux and serves on port 8080.  Each request runs its handler in its own  *)
(* goroutine; the handler makes one call on the shared client and writes   *)
(* the result or the error to its own ResponseWriter.                      *)
(*                                                                         *)
(* Go values: a string is a sequence of one-character strings; a pointer   *)
(* or an error is <<>> (nil) or <<v>>; error texts are TLA+ strings.       *)
(***************************************************************************)
EXTENDS Integers, Sequences, FiniteSets, TLC

VARIABLES mainpc, client, routes, listening, req

vars == <<mainpc, client, routes, listening, req>>

(***************************************************************************)
(* Bounds of the model.                                                    *)
(***************************************************************************)
\* connections the server handles at the same time
NumRequests == 2
\* longest address string the short-string clients of SpecNorm send
MaxLen == 2

Req == 1..NumRequests

(***************************************************************************)
(* Go's nil, pointers and strings.                                         *)
(***************************************************************************)
Nil == <<>>
Ptr(v) == <<v>>
Deref(p) == p[1]

Repeat(c, n) == [i \in 1..n |-> c]

(***************************************************************************)
(* HTTP status codes used by the handlers and the mux.                     *)
(***************************************************************************)
StatusOK == 200
StatusBadRequest == 400
StatusNotFound == 404
StatusInternalServerError == 500

(***************************************************************************)
(* common.HexToAddress(address): BytesToAddress(FromHex(s)).               *)
(***************************************************************************)
AddressLength == 20

LowerHex == <<"0", "1", "2", "3", "4", "5", "6", "7", "8", "9",
              "a", "b", "c", "d", "e", "f">>
UpperHex == <<"0", "1", "2", "3", "4", "5", "6", "7", "8", "9",
              "A", "B", "C", "D", "E", "F">>

\* encoding/hex's reverse table: the nibble of a hex character, 255 otherwise
reverseHexTable ==
    [c \in {LowerHex[i] : i \in 1..16} \cup {UpperHex[i] : i \in 1..16} |->
        IF \E i \in 1..16 : LowerHex[i] = c
        THEN (CHOOSE i \in 1..16 : LowerHex[i] = c) - 1
        ELSE (CHOOSE i \in 1..16 : UpperHex[i] = c) - 1]

fromHexChar(c) ==
    IF c \in DOMAIN reverseHexTable THEN reverseHexTable[c] ELSE 255

\* a prefix test that knows the lower-case x only
has0xPrefixLower(s) == Len(s) >= 2 /\ s[1] = "0" /\ s[2] = "x"

has0xPrefix(s) == Len(s) >= 2 /\ s[1] = "0" /\ (s[2] = "x" \/ s[2] = "X")

\* hex.Decode: bytes of the character pairs up to the first invalid pair
RECURSIVE hexDecode(_, _)
hexDecode(s, j) ==
    IF j >= Len(s) + 1 THEN <<>>
    ELSE IF fromHexChar(s[j - 1]) > 15 \/ fromHexChar(s[j]) > 15 THEN <<>>
    ELSE <<fromHexChar(s[j - 1]) * 16 + fromHexChar(s[j])>> \o hexDecode(s, j + 2)

\* Hex2Bytes drops hex.DecodeString's error and keeps the bytes decoded
Hex2Bytes(s) == hexDecode(s, 2)

FromHex(s) ==
    LET s1 == IF has0xPrefix(s) THEN SubSeq(s, 3, Len(s)) ELSE s
        s2 == IF Len(s1) % 2 = 1 THEN <<"0">> \o s1 ELSE s1
    IN  Hex2Bytes(s2)

\* SetBytes cropping from the right: the first AddressLength bytes are kept
BytesToAddressKeepsFirst(b) ==
    LET c == IF Len(b) > AddressLength THEN SubSeq(b, 1, AddressLength) ELSE b
    IN  Repeat(0, AddressLength - Len(c)) \o c

\* Address.SetBytes: the last AddressLength bytes, left-padded with zeros
BytesToAddress(b) ==
    LET c == IF Len(b) > AddressLength
             THEN SubSeq(b, Len(b) - AddressLength + 1, Len(b))
             ELSE b
    IN  Repeat(0, AddressLength - Len(c)) \o c

HexToAddress(s) == BytesToAddress(FromHex(s))

(***************************************************************************)
(* Address.Hex(): "0x" and forty hex digits; EIP-55 writes a letter in     *)
(* upper case where the hash of the lower-case text says so.  The hash is  *)
(* not modelled: up[i] tells whether letter position i is upper case.      *)
(***************************************************************************)
hexEncode(b, up) ==
    [i \in 1..(2 * Len(b)) |->
        LET n == IF i % 2 = 1 THEN b[(i + 1) \div 2] \div 16
                 ELSE b[i \div 2] % 16
        IN  IF up[i] THEN UpperHex[n + 1] ELSE LowerHex[n + 1]]

AddressHex(a, up) == <<"0", "x">> \o hexEncode(a, up)

\* the checksum casings the model tries
NoneUpper == [i \in 1..(2 * AddressLength) |-> FALSE]
AllUpper == [i \in 1..(2 * AddressLength) |-> TRUE]
OddUpper == [i \in 1..(2 * AddressLength) |-> i % 2 = 1]
Casings == {NoneUpper, AllUpper, OddUpper}

(***************************************************************************)
(* big.Int.String(): "<nil>" for a nil pointer, else the decimal text.     *)
(***************************************************************************)
DecDigits == <<"0", "1", "2", "3", "4", "5", "6", "7", "8", "9">>

RECURSIVE natString(_)
natString(n) ==
    IF n < 10 THEN <<DecDigits[n + 1]>>
    ELSE natString(n \div 10) \o <<DecDigits[(n % 10) + 1]>>

BigString(p) ==
    IF p = Nil THEN <<"<", "n", "i", "l", ">">>
    ELSE IF Deref(p) < 0 THEN <<"-">> \o natString(0 - Deref(p))
    ELSE natString(Deref(p))

(***************************************************************************)
(* The remote node behind the client interface: what HeaderByNumber and    *)
(* BalanceAt may hand back.  An implementation of the interface may return *)
(* a nil header, a header without a number, or a value next to an error.   *)
(***************************************************************************)
Heights == {0, 12345}
Balances == {0, 1000}
ErrTexts == {"node unavailable"}

BigInts(S) == {Nil} \cup {Ptr(n) : n \in S}
Errors == {Nil} \cup {Ptr(m) : m \in ErrTexts}
Headers == {Nil} \cup {Ptr([Number |-> n]) : n \in BigInts(Heights)}

HeaderAnswers == {[val |-> h, err |-> e] : h \in Headers, e \in Errors}
BalanceAnswers == {[val |-> b, err |-> e] : b \in BigInts(Balances), e \in Errors}

(***************************************************************************)
(* The requests clients send.  A query is Absent or carries one value of   *)
(* the address parameter.                                                  *)
(***************************************************************************)
Absent == <<>>
Present(s) == <<s>>

\* r.URL.Query().Get("address"): "" when the parameter is absent
QueryGet(q) == IF q = Absent THEN <<>> ELSE q[1]

ZeroAddress == Repeat(0, AddressLength)

\* the queries of the concurrent clients of Spec
Queries ==
    {Absent, Present(<<>>), Present(<<"0", "x", "0">>),
     Present(AddressHex(ZeroAddress, NoneUpper)),
     Present(<<"a", "1">>), Present(<<"z", "z">>)}

\* the address strings of the clients of SpecNorm
Alphabet == {"0", "x", "a", "F", "g"}
ShortStrings == UNION {[1..k -> Alphabet] : k \in 0..MaxLen}
Long40 == Repeat("7", 2 * AddressLength - 2) \o <<"a", "F">>
LongStrings == {Long40, <<"F">> \o Long40, <<"a", "1", "g", "1">> \o Long40,
                <<"a", "1", "b", "2">> \o Long40,
                SubSeq(Long40, 1, 20) \o <<"g">> \o SubSeq(Long40, 22, 40)}
NormStrings == ShortStrings \cup LongStrings

\* the same address written another way: with the prefix, or as Address.Hex()
\* prints the address that was queried for it
Variants(s, account) ==
    {<<"0", "x">> \o s, <<"0", "X">> \o s}
        \cup {AddressHex(account, up) : up \in Casings}

(***************************************************************************)
(* A request: where its handler stands (pc), what it asked, the calls its  *)
(* handler made on the client, the answer of the node (ans), what the      *)
(* adapter method returned to the handler (ret), and what the handler      *)
(* wrote to its ResponseWriter (resp).                                     *)
(***************************************************************************)
NoAnswer == [val |-> Nil, err |-> Nil]

IdleRequest ==
    [pc |-> "idle", path |-> "", query |-> Absent, calls |-> <<>>,
     ans |-> NoAnswer, ret |-> NoAnswer, resp |-> <<>>]

Init ==
    /\ mainpc = "dial"
    /\ client = Nil
    /\ routes = {}
    /\ listening = FALSE
    /\ req = [r \in Req |-> IdleRequest]

(***************************************************************************)
(* main: dial, register the two handlers, listen and serve.                *)
(***************************************************************************)
\* ethclient.Dial succeeds: NewEthereumClient wraps the connection
Dial ==
    /\ mainpc = "dial"
    /\ client' = Ptr("conn")
    /\ mainpc' = "handle_latest_block"
    /\ UNCHANGED <<routes, listening, req>>

\* the failed dial only logged: main goes on without a client
DialFailsLogged ==
    /\ mainpc = "dial"
    /\ mainpc' = "handle_latest_block"
    /\ UNCHANGED <<client, routes, listening, req>>

\* ethclient.Dial fails: log.Fatalf ends the process
DialFails ==
    /\ mainpc = "dial"
    /\ mainpc' = "exited"
    /\ UNCHANGED <<client, routes, listening, req>>

HandleFuncLatestBlock ==
    /\ mainpc = "handle_latest_block"
    /\ routes' = routes \cup {"/latest-block"}
    /\ mainpc' = "handle_balance"
    /\ UNCHANGED <<client, listening, req>>

HandleFuncBalance ==
    /\ mainpc = "handle_balance"
    /\ routes' = routes \cup {"/balance"}
    /\ mainpc' = "listen"
    /\ UNCHANGED <<client, listening, req>>

\* http.ListenAndServe binds :8080 and serves
ListenAndServe ==
    /\ mainpc = "listen"
    /\ listening' = TRUE
    /\ mainpc' = "serving"
    /\ UNCHANGED <<client, routes, req>>

\* http.ListenAndServe returns the bind error: log.Fatal ends the process
ListenFails ==
    /\ mainpc = "listen"
    /\ mainpc' = "exited"
    /\ UNCHANGED <<client, routes, listening, req>>

(***************************************************************************)
(* What the handlers write.                                                *)
(***************************************************************************)
\* http.Error(w, msg, code): the status and the message as a line of text
httpError(msg, code) ==
    [status |-> code, ctype |-> "text/plain", key |-> "", value |-> <<>>,
     msg |-> msg]

\* json.NewEncoder(w).Encode(map{key: value}): the first write sends 200
jsonEncode(k, v) ==
    [status |-> StatusOK, ctype |-> "json", key |-> k, value |-> v, msg |-> ""]

(***************************************************************************)
(* The adapter: getLatestBlockNumber and getBalance.                       *)
(***************************************************************************)
\* the header of block 0 asked for instead of the head
HeaderByNumberCallGenesis ==
    [method |-> "HeaderByNumber", account |-> Nil, number |-> Ptr(0)]

\* ec.client.HeaderByNumber(context.Background(), nil)
HeaderByNumberCall ==
    [method |-> "HeaderByNumber", account |-> Nil, number |-> Nil]

\* ec.client.BalanceAt(context.Background(), common.HexToAddress(address), nil)
BalanceAtCall(address) ==
    [method |-> "BalanceAt", account |-> HexToAddress(address), number |-> Nil]

\* header.Number dereferences the header: a nil header with a nil error panics
getLatestBlockNumberPanics(a) == a.err = Nil /\ a.val = Nil

getLatestBlockNumberReturn(a) ==
    IF a.err # Nil THEN [val |-> Nil, err |-> a.err]
    ELSE [val |-> Deref(a.val).Number, err |-> Nil]

\* getBalance handing the node's value back next to the error
getBalanceReturnKeepsValue(a) == [val |-> a.val, err |-> a.err]

getBalanceReturn(a) ==
    IF a.err # Nil THEN [val |-> Nil, err |-> a.err]
    ELSE [val |-> a.val, err |-> Nil]

(***************************************************************************)
(* The handlers.                                                           *)
(***************************************************************************)
\* the response of the other handler pasted in: the field is named "balance"
LatestBlockResponsePasted(ret) ==
    IF ret.err # Nil
    THEN httpError(Deref(ret.err), StatusInternalServerError)
    ELSE jsonEncode("balance", BigString(ret.val))

LatestBlockResponse(ret) ==
    IF ret.err # Nil
    THEN httpError(Deref(ret.err), StatusInternalServerError)
    ELSE jsonEncode("latest_block", BigString(ret.val))

BalanceResponse(ret) ==
    IF ret.err # Nil
    THEN httpError(Deref(ret.err), StatusInternalServerError)
    ELSE jsonEncode("balance", BigString(ret.val))

\* the server accepts connections once it listens
Accepts(r) == mainpc = "serving" /\ listening /\ req[r].pc = "idle"

\* the adapter keeping the last block number: once a request has been
\* answered 200, later requests get that answer without a call on the node
ServeLatestBlockCached(r) ==
    /\ Accepts(r)
    /\ "/latest-block" \in routes
    /\ req' = [req EXCEPT ![r] =
                 IF \E o \in Req : /\ req[o].path = "/latest-block"
                                    /\ req[o].pc = "done"
                                    /\ req[o].resp[1].status = StatusOK
                 THEN LET o == CHOOSE o \in Req : /\ req[o].path = "/latest-block"
                                                  /\ req[o].pc = "done"
                                                  /\ req[o].resp[1].status = StatusOK
                      IN  [@ EXCEPT !.pc = "done", !.path = "/latest-block",
                                    !.resp = Append(@, req[o].resp[1])]
                 ELSE [@ EXCEPT !.pc = "called", !.path = "/latest-block",
                                !.calls = Append(@, HeaderByNumberCall)]]
    /\ UNCHANGED <<mainpc, client, routes, listening>>

\* GET /latest-block: the handler calls getLatestBlockNumber, which calls the node
ServeLatestBlock(r) ==
    /\ Accepts(r)
    /\ "/latest-block" \in routes
    /\ req' = [req EXCEPT ![r] =
                 [@ EXCEPT !.pc = "called", !.path = "/latest-block",
                           !.calls = Append(@, HeaderByNumberCall)]]
    /\ UNCHANGED <<mainpc, client, routes, listening>>

\* the handler rejecting what is not forty hex digits after an optional prefix
ServeBalanceValidated(r, q) ==
    /\ Accepts(r)
    /\ "/balance" \in routes
    /\ LET address == QueryGet(q)
           digits == IF has0xPrefix(address)
                     THEN SubSeq(address, 3, Len(address)) ELSE address
           valid == /\ Len(digits) = 2 * AddressLength
                    /\ \A i \in 1..Len(digits) : fromHexChar(digits[i]) <= 15
       IN  req' = [req EXCEPT ![r] =
                 IF address = <<>>
                 THEN [@ EXCEPT !.pc = "done", !.path = "/balance", !.query = q,
                         !.resp = Append(@, httpError("Address is required",
                                                      StatusBadRequest))]
                 ELSE IF ~valid
                 THEN [@ EXCEPT !.pc = "done", !.path = "/balance", !.query = q,
                         !.resp = Append(@, httpError("Invalid address",
                                                      StatusBadRequest))]
                 ELSE [@ EXCEPT !.pc = "called", !.path = "/balance", !.query = q,
                         !.calls = Append(@, BalanceAtCall(address))]]
    /\ UNCHANGED <<mainpc, client, routes, listening>>

\* the handler without its check of the address parameter
ServeBalanceUnchecked(r, q) ==
    /\ Accepts(r)
    /\ "/balance" \in routes
    /\ req' = [req EXCEPT ![r] =
                 [@ EXCEPT !.pc = "called", !.path = "/balance", !.query = q,
                           !.calls = Append(@, BalanceAtCall(QueryGet(q)))]]
    /\ UNCHANGED <<mainpc, client, routes, listening>>

\* GET /balance: 400 without an address, else getBalance calls the node
ServeBalance(r, q) ==
    /\ Accepts(r)
    /\ "/balance" \in routes
    /\ LET address == QueryGet(q)
       IN  req' = [req EXCEPT ![r] =
                 IF address = <<>>
                 THEN [@ EXCEPT !.pc = "done", !.path = "/balance", !.query = q,
                         !.resp = Append(@, httpError("Address is required",
                                                      StatusBadRequest))]
                 ELSE [@ EXCEPT !.pc = "called", !.path = "/balance", !.query = q,
                         !.calls = Append(@, BalanceAtCall(address))]]
    /\ UNCHANGED <<mainpc, client, routes, listening>>

\* any other path: the default mux answers 404
ServeNotFound(r) ==
    /\ Accepts(r)
    /\ "/other" \notin routes
    /\ req' = [req EXCEPT ![r] =
                 [@ EXCEPT !.pc = "done", !.path = "/other",
                           !.resp = Append(@, httpError("404 page not found",
                                                        StatusNotFound))]]
    /\ UNCHANGED <<mainpc, client, routes, listening>>

\* the node answers HeaderByNumber and getLatestBlockNumber returns; on a nil
\* header it panics: the server recovers, closes the connection, writes nothing
HeaderByNumberReturns(r, a) ==
    /\ req[r].pc = "called"
    /\ req[r].path = "/latest-block"
    /\ client # Nil
    /\ req' = [req EXCEPT ![r] =
                 IF getLatestBlockNumberPanics(a)
                 THEN [@ EXCEPT !.pc = "aborted", !.ans = a]
                 ELSE [@ EXCEPT !.pc = "returned", !.ans = a,
                                !.ret = getLatestBlockNumberReturn(a)]]
    /\ UNCHANGED <<mainpc, client, routes, listening>>

\* the node answers BalanceAt and getBalance returns
BalanceAtReturns(r, a) ==
    /\ req[r].pc = "called"
    /\ req[r].path = "/balance"
    /\ client # Nil
    /\ req' = [req EXCEPT ![r] =
                 [@ EXCEPT !.pc = "returned", !.ans = a,
                           !.ret = getBalanceReturn(a)]]
    /\ UNCHANGED <<mainpc, client, routes, listening>>

\* the handler writing a result kept in one place for all requests: it may
\* be the result of another request's call
RespondShared(r) ==
    /\ req[r].pc = "returned"
    /\ \E o \in Req :
          /\ req[o].pc = "returned"
          /\ req' = [req EXCEPT ![r] =
                 [@ EXCEPT !.pc = "done",
                           !.resp = Append(@, IF req[r].path = "/latest-block"
                                              THEN LatestBlockResponse(req[o].ret)
                                              ELSE BalanceResponse(req[o].ret))]]
    /\ UNCHANGED <<mainpc, client, routes, listening>>

\* the handler writes the error or the JSON result
Respond(r) ==
    /\ req[r].pc = "returned"
    /\ req' = [req EXCEPT ![r] =
                 [@ EXCEPT !.pc = "done",
                           !.resp = Append(@, IF req[r].path = "/latest-block"
                                              THEN LatestBlockResponse(req[r].ret)
                                              ELSE BalanceResponse(req[r].ret))]]
    /\ UNCHANGED <<mainpc, client, routes, listening>>

Main ==
    \/ Dial
    \/ DialFails
    \/ HandleFuncLatestBlock
    \/ HandleFuncBalance
    \/ ListenAndServe
    \/ ListenFails

Next ==
    \/ Main
    \/ \E r \in Req : ServeLatestBlock(r)
    \/ \E r \in Req, q \in Queries : ServeBalance(r, q)
    \/ \E r \in Req : ServeNotFound(r)
    \/ \E r \in Req, a \in HeaderAnswers : HeaderByNumberReturns(r, a)
    \/ \E r \in Req, a \in BalanceAnswers : BalanceAtReturns(r, a)
    \/ \E r \in Req : Respond(r)

Spec == Init /\ [][Next]_vars

(***************************************************************************)
(* SpecNorm: the same server with two clients of /balance.  The first      *)
(* sends any short or long address string; the second sends the first's    *)
(* address written another way.                                            *)
(***************************************************************************)
FirstBalance ==
    \E s \in NormStrings : ServeBalance(1, Present(s))

SecondBalance ==
    /\ Accepts(2)
    /\ req[1].pc # "idle"
    /\ req[1].calls # <<>>
    /\ \E s \in Variants(QueryGet(req[1].query), req[1].calls[1].account) :
          ServeBalance(2, Present(s))

NextNorm ==
    \/ Main
    \/ FirstBalance
    \/ SecondBalance
    \/ \E r \in {1, 2}, a \in BalanceAnswers : BalanceAtReturns(r, a)
    \/ \E r \in {1, 2} : Respond(r)

SpecNorm == Init /\ [][NextNorm]_vars


(***************************************************************************)
(* Reading a response back: the decimal text of a JSON field as a number,  *)
(* and an address as its forty nibbles.                                    *)
(***************************************************************************)
IsDecimal(s) ==
    /\ s # <<>>
    /\ \A i \in 1..Len(s) : \E d \in 1..10 : DecDigits[d] = s[i]

DigitValue(c) == (CHOOSE d \in 1..10 : DecDigits[d] = c) - 1

RECURSIVE ParseDecimal(_)
ParseDecimal(s) ==
    IF s = <<>> THEN 0
    ELSE ParseDecimal(SubSeq(s, 1, Len(s) - 1)) * 10 + DigitValue(s[Len(s)])

\* the one response a finished request got
Answered(r) == req[r].pc = "done" /\ Len(req[r].resp) = 1
Response(r) == req[r].resp[1]

IsJSON(rsp, k) ==
    rsp.status = StatusOK /\ rsp.ctype = "json" /\ rsp.key = k /\ rsp.msg = ""

IsErrorText(rsp, code, msg) ==
    /\ rsp.status = code /\ rsp.ctype = "text/plain" /\ rsp.msg = msg
    /\ rsp.key = "" /\ rsp.value = <<>>

HexChars == {LowerHex[i] : i \in 1..16} \cup {UpperHex[i] : i \in 1..16}
IsHexString(s) == \A i \in 1..Len(s) : s[i] \in HexChars
NibbleValues ==
    [c \in HexChars |-> (CHOOSE v \in 1..16 : LowerHex[v] = c \/ UpperHex[v] = c) - 1]
NibbleOf(c) == NibbleValues[c]
Unprefixed(s) ==
    IF Len(s) >= 2 /\ SubSeq(s, 1, 2) \in {<<"0", "x">>, <<"0", "X">>}
    THEN SubSeq(s, 3, Len(s)) ELSE s

\* the 20-byte value of a hex numeral: its last forty digits, zeros before them
NibblesOfNumeral(s) ==
    LET d == Repeat(0, 2 * AddressLength) \o [i \in 1..Len(s) |-> NibbleOf(s[i])]
    IN  SubSeq(d, Len(d) - 2 * AddressLength + 1, Len(d))

NibblesOfAddress(a) ==
    [i \in 1..(2 * AddressLength) |->
        IF i % 2 = 1 THEN a[(i + 1) \div 2] \div 16 ELSE a[i \div 2] % 16]

HeaderOf(r) == Deref(req[r].ans.val)

GotHeight(r) ==
    /\ req[r].path = "/latest-block"
    /\ req[r].pc \in {"returned", "done", "aborted"}
    /\ req[r].ans.err = Nil
    /\ req[r].ans.val # Nil
    /\ HeaderOf(r).Number # Nil

(***************************************************************************)
(* C1.  A header the node returns without error with number h makes        *)
(* getLatestBlockNumber return h and /latest-block answer 200 with a JSON  *)
(* body whose latest_block field is the decimal text of h.                 *)
(***************************************************************************)
C1_LatestBlock ==
    \A r \in Req : GotHeight(r) =>
        /\ req[r].pc # "aborted"
        /\ req[r].ret = [val |-> HeaderOf(r).Number, err |-> Nil]
        /\ req[r].pc = "done" =>
              /\ Answered(r)
              /\ IsJSON(Response(r), "latest_block")
              /\ IsDecimal(Response(r).value)
              /\ ParseDecimal(Response(r).value) = Deref(HeaderOf(r).Number)

C1_Witness ==
    \E r \in Req :
        /\ GotHeight(r)
        /\ Deref(HeaderOf(r).Number) = 12345
        /\ Answered(r)
        /\ Response(r).value = <<"1", "2", "3", "4", "5">>

AddressOf(r) == QueryGet(req[r].query)

AsksBalance(r) ==
    req[r].path = "/balance" /\ req[r].pc # "idle" /\ AddressOf(r) # <<>>

GotBalance(r) ==
    /\ AsksBalance(r)
    /\ req[r].pc = "done"
    /\ req[r].ans.err = Nil
    /\ req[r].ans.val # Nil

(***************************************************************************)
(* C2.  A /balance request with a non-empty address a asks the node for    *)
(* the balance of the normalized address of a and of no other address, and *)
(* a balance b returned without error is answered 200 with a JSON body     *)
(* whose balance field is the decimal text of b.  The normalized address   *)
(* of a hex numeral is its 20-byte value.                                  *)
(***************************************************************************)
C2_Balance ==
    \A r \in Req : AsksBalance(r) =>
        /\ Len(req[r].calls) = 1
        /\ req[r].calls[1].method = "BalanceAt"
        /\ req[r].calls[1].account = HexToAddress(AddressOf(r))
        /\ Len(req[r].calls[1].account) = AddressLength
        /\ IsHexString(Unprefixed(AddressOf(r))) =>
              NibblesOfAddress(req[r].calls[1].account)
                  = NibblesOfNumeral(Unprefixed(AddressOf(r)))
        /\ GotBalance(r) =>
              /\ Answered(r)
              /\ IsJSON(Response(r), "balance")
              /\ IsDecimal(Response(r).value)
              /\ ParseDecimal(Response(r).value) = Deref(req[r].ans.val)

C2_Witness ==
    \E r \in Req :
        /\ GotBalance(r)
        /\ Len(AddressOf(r)) > 2 * AddressLength + 2
        /\ IsHexString(AddressOf(r))
        /\ Deref(req[r].ans.val) = 1000
        /\ Response(r).value = <<"1", "0", "0", "0">>

CallFailed(r) ==
    /\ req[r].path \in {"/latest-block", "/balance"}
    /\ req[r].pc \in {"returned", "done", "aborted"}
    /\ req[r].ans.err # Nil

(***************************************************************************)
(* C3.  When the node's call fails, the adapter returns the error and no   *)
(* value, and both handlers answer 500 with the error's text, never 200    *)
(* and never a JSON body.                                                  *)
(***************************************************************************)
C3_RemoteFailure ==
    \A r \in Req : CallFailed(r) =>
        /\ req[r].pc # "aborted"
        /\ req[r].ret = [val |-> Nil, err |-> req[r].ans.err]
        /\ req[r].pc = "done" =>
              /\ Answered(r)
              /\ IsErrorText(Response(r), StatusInternalServerError,
                             Deref(req[r].ans.err))

C3_Witness ==
    \E r1, r2 \in Req :
        /\ CallFailed(r1) /\ req[r1].path = "/latest-block" /\ Answered(r1)
        /\ CallFailed(r2) /\ req[r2].path = "/balance" /\ Answered(r2)
        /\ req[r2].ans.val # Nil
        /\ Response(r1).status = StatusInternalServerError
        /\ Response(r2).msg = "node unavailable"

NoAddress(r) ==
    req[r].path = "/balance" /\ req[r].pc # "idle" /\ AddressOf(r) = <<>>

(***************************************************************************)
(* C4.  /balance without an address parameter, or with an empty one, is    *)
(* answered 400 "Address is required" and makes no call on the client.     *)
(***************************************************************************)
C4_AddressRequired ==
    \A r \in Req : NoAddress(r) =>
        /\ Answered(r)
        /\ IsErrorText(Response(r), StatusBadRequest, "Address is required")
        /\ req[r].calls = <<>>

C4_Witness ==
    \E r1, r2 \in Req :
        /\ NoAddress(r1) /\ req[r1].query = Absent
        /\ NoAddress(r2) /\ req[r2].query = Present(<<>>)
        /\ Response(r1).status = StatusBadRequest
        /\ Response(r2).status = StatusBadRequest


WellFormed(s) ==
    IsHexString(Unprefixed(s)) /\ Len(Unprefixed(s)) = 2 * AddressLength

Malformed(r) == AsksBalance(r) /\ ~WellFormed(AddressOf(r))

(***************************************************************************)
(* C5 as claimed.  A /balance request whose address is present but is not  *)
(* a hexadecimal 20-byte address is answered 400 and no balance is fetched *)
(* for it.                                                                 *)
(***************************************************************************)
C5_AsClaimed ==
    \A r \in Req : Malformed(r) =>
        /\ req[r].calls = <<>>
        /\ req[r].pc = "done" => Response(r).status = StatusBadRequest

(***************************************************************************)
(* C5, amended.  Only a missing or empty address is answered 400.  An      *)
(* address that is present but malformed is not rejected: it is normalized *)
(* to 20 bytes, exactly one balance call is made for that address, and the *)
(* answer is 200 or 500 as the call succeeds or fails.                     *)
(***************************************************************************)
C5_MalformedIsFetched ==
    \A r \in Req :
        /\ Malformed(r) =>
              /\ Len(req[r].calls) = 1
              /\ req[r].calls[1].account = HexToAddress(AddressOf(r))
              /\ Len(req[r].calls[1].account) = AddressLength
              /\ req[r].pc = "done" =>
                    /\ Answered(r)
                    /\ Response(r).status =
                          IF req[r].ans.err = Nil THEN StatusOK
                          ELSE StatusInternalServerError
        /\ (req[r].path = "/balance" /\ req[r].pc = "done") =>
              (Response(r).status = StatusBadRequest <=> AddressOf(r) = <<>>)

C5_Witness ==
    \E r \in Req :
        /\ Malformed(r)
        /\ ~IsHexString(Unprefixed(AddressOf(r)))
        /\ Answered(r)
        /\ Response(r).status = StatusOK
        /\ req[r].calls[1].account # ZeroAddress

SameAddress(r1, r2) ==
    /\ AsksBalance(r1)
    /\ AsksBalance(r2)
    /\ \/ /\ ~has0xPrefix(AddressOf(r1))
          /\ AddressOf(r2) \in {<<"0", "x">> \o AddressOf(r1),
                                <<"0", "X">> \o AddressOf(r1)}
       \/ \E up \in Casings :
             AddressOf(r2) = AddressHex(req[r1].calls[1].account, up)

(***************************************************************************)
(* C6.  An address written without the prefix, with the prefix 0x or 0X,   *)
(* or as the hex form of its normalized value makes getBalance ask for the *)
(* same 20 bytes, and the same answer of the node gives the same response. *)
(***************************************************************************)
C6_Normalization ==
    \A r1, r2 \in Req : (r1 # r2 /\ SameAddress(r1, r2)) =>
        /\ req[r2].calls[1].account = req[r1].calls[1].account
        /\ (req[r1].pc = "done" /\ req[r2].pc = "done"
                /\ req[r1].ans = req[r2].ans) => req[r1].resp = req[r2].resp

C6_Witness ==
    \E r1, r2 \in Req :
        /\ r1 # r2
        /\ SameAddress(r1, r2)
        /\ AddressOf(r2) = AddressHex(req[r1].calls[1].account, OddUpper)
        /\ req[r1].calls[1].account # ZeroAddress
        /\ Len(AddressOf(r1)) % 2 = 1
        /\ Answered(r1) /\ Answered(r2)
        /\ Response(r1).status = StatusOK
        /\ Response(r2) = Response(r1)

\* the handler run to its end by itself, the node answering a
Alone(path, q, a) ==
    IF path = "/other"
    THEN <<httpError("404 page not found", StatusNotFound)>>
    ELSE IF path = "/latest-block"
    THEN IF getLatestBlockNumberPanics(a) THEN <<>>
         ELSE <<LatestBlockResponse(getLatestBlockNumberReturn(a))>>
    ELSE IF QueryGet(q) = <<>>
    THEN <<httpError("Address is required", StatusBadRequest)>>
    ELSE <<BalanceResponse(getBalanceReturn(a))>>

(***************************************************************************)
(* C7.  Requests running at the same time do not interfere: each request   *)
(* ends as it would alone with the answer the node gave to its own call,   *)
(* and a request in flight can always take its next step, whatever the     *)
(* others are doing.                                                       *)
(***************************************************************************)
C7_NoInterference ==
    \A r \in Req :
        /\ req[r].pc \in {"done", "aborted"} =>
              req[r].resp = Alone(req[r].path, req[r].query, req[r].ans)
        /\ (req[r].pc = "called" /\ req[r].path = "/latest-block") =>
              \A a \in HeaderAnswers : ENABLED HeaderByNumberReturns(r, a)
        /\ (req[r].pc = "called" /\ req[r].path = "/balance") =>
              \A a \in BalanceAnswers : ENABLED BalanceAtReturns(r, a)
        /\ req[r].pc = "returned" => ENABLED Respond(r)

C7_Witness ==
    \E r1, r2 \in Req :
        /\ req[r1].path = "/latest-block" /\ req[r1].pc = "returned"
        /\ req[r1].ret.val = Ptr(12345)
        /\ req[r2].path = "/balance" /\ req[r2].pc = "returned"
        /\ req[r2].ret.val = Ptr(1000)

ConnectFailed == mainpc = "exited" /\ client = Nil

(***************************************************************************)
(* C8.  A failed dial ends the process: no route is registered, the port   *)
(* is not bound and no request is served.  Every request served is served  *)
(* after a successful dial, by a client that is not nil.                   *)
(***************************************************************************)
C8_FatalAtStartup ==
    /\ client = Nil =>
          /\ mainpc \in {"dial", "exited"}
          /\ routes = {}
          /\ ~listening
          /\ \A r \in Req : req[r] = IdleRequest
    /\ \A r \in Req : req[r].pc # "idle" =>
          client # Nil /\ listening /\ mainpc = "serving"

C8_Witness == ConnectFailed /\ routes = {} /\ ~listening

Ended(r) == req[r].pc \in {"done", "aborted"}

NoUsableValue(r) ==
    /\ req[r].calls # <<>>
    /\ req[r].ans.err = Nil
    /\ \/ req[r].ans.val = Nil
       \/ req[r].path = "/latest-block" /\ HeaderOf(r).Number = Nil

Failed(r) ==
    \/ req[r].path = "/other"
    \/ req[r].path = "/balance" /\ AddressOf(r) = <<>>
    \/ req[r].calls # <<>> /\ req[r].ans.err # Nil
    \/ NoUsableValue(r)

C10_ChainHead ==
    \A r \in Req : \A i \in 1..Len(req[r].calls) :
        /\ req[r].calls[i].number = Nil
        /\ req[r].calls[i].method =
              IF req[r].path = "/latest-block" THEN "HeaderByNumber"
              ELSE "BalanceAt"

C10_Witness ==
    \E r1, r2 \in Req :
        /\ req[r1].calls = <<HeaderByNumberCall>>
        /\ Len(req[r2].calls) = 1
        /\ req[r2].calls[1].method = "BalanceAt"
        /\ req[r2].calls[1].account # ZeroAddress
        /\ req[r2].calls[1].number = Nil

\* the handler of the request reached an adapter method
ReachedAdapter(r) ==
    \/ req[r].path = "/latest-block" /\ req[r].pc # "idle"
    \/ AsksBalance(r)

\* the number the node's answer to this request's own call carries
OwnValue(r) ==
    IF req[r].path = "/latest-block" THEN HeaderOf(r).Number ELSE req[r].ans.val

Succeeded(r) ==
    /\ req[r].path \in {"/latest-block", "/balance"}
    /\ req[r].pc = "done"
    /\ Response(r).status = StatusOK

(***************************************************************************)
(* C11.  A request makes exactly one call on the client when its handler   *)
(* reaches the adapter and none otherwise; the call is not repeated after  *)
(* the node answered, with an error or without.  Nothing is kept between   *)
(* requests: a 200 response carries the value the node returned to the     *)
(* call of that same request, also when another request got another value. *)
(***************************************************************************)
C11_OneCallNoCache ==
    \A r \in Req :
        /\ Len(req[r].calls) = IF ReachedAdapter(r) THEN 1 ELSE 0
        /\ Succeeded(r) =>
              /\ req[r].ans.err = Nil
              /\ Response(r).key =
                    IF req[r].path = "/latest-block" THEN "latest_block"
                    ELSE "balance"
              /\ IF OwnValue(r) = Nil
                 THEN Response(r).value = <<"<", "n", "i", "l", ">">>
                 ELSE /\ IsDecimal(Response(r).value)
                      /\ ParseDecimal(Response(r).value) = Deref(OwnValue(r))

C11_Witness ==
    \E r1, r2 \in Req :
        /\ Succeeded(r1) /\ Succeeded(r2)
        /\ req[r1].path = req[r2].path
        /\ Response(r1).value = <<"1", "2", "3", "4", "5">>
        /\ Response(r2).value = <<"0">>
        /\ Len(req[r1].calls) = 1 /\ Len(req[r2].calls) = 1


=============================================================================
